---------------------------- MODULE Spec2Model ----------------------------
(***************************************************************************)
(* A model of src/utils/command.rs: shell detection, the two process       *)
(* runners and the document-loader protocol (run_loader_command).          *)
(*                                                                         *)
(* Text is modelled as a sequence of one-character strings, so that        *)
(* splitting, substring search and replacement are computed as the code    *)
(* computes them.  A captured byte stream is a sequence of characters      *)
(* that may also hold the element BadByte, a byte that is not valid UTF-8. *)
(***************************************************************************)
EXTENDS Integers, Sequences, FiniteSets, TLC

VARIABLES
    \* ---- the loader protocol (one entry per caller) ----
    pc,              \* position of each caller inside run_loader_command
    path,            \* argument `path`
    extension,       \* argument `extension`
    loader_command,  \* argument `loader_command`
    cmd_args,        \* the substituted word array
    use_stdout,      \* the mode flag
    outpath,         \* the temp output path
    child,           \* the subprocess of the invocation
    result,          \* what the invocation returned
    spawns,          \* subprocesses spawned by the invocation
    runner,          \* which runner the invocation used
    reads,           \* reads of the temp output path by the invocation
    wrote,           \* whether the invocation's loader wrote its output file
    fs,              \* the temp directory: temp path -> file content
    \* ---- the substitution step alone ----
    in_path, in_template, prepared,
    \* ---- shell detection ----
    os, env_SHELL, env_PSModulePath, shell

loaderVars == <<pc, path, extension, loader_command, cmd_args, use_stdout,
                outpath, child, result, spawns, runner, reads, wrote, fs>>
substVars  == <<in_path, in_template, prepared>>
shellVars  == <<os, env_SHELL, env_PSModulePath, shell>>
vars       == <<loaderVars, substVars, shellVars>>

-----------------------------------------------------------------------------
(* Text helpers: str::contains, str::replace, str::split, to_lowercase.     *)

\* Whether `sub` occurs in `s` at index i.
MatchAt(s, sub, i) ==
    /\ i + Len(sub) - 1 <= Len(s)
    /\ \A k \in 1..Len(sub) : s[i + k - 1] = sub[k]

\* str::contains
Contains(s, sub) == \E i \in 1..(Len(s) + 1) : MatchAt(s, sub, i)

\* str::replace: every non-overlapping match, left to right; the inserted
\* text is not searched again.
RECURSIVE ReplaceFrom(_, _, _, _)
ReplaceFrom(s, from, to, i) ==
    IF i > Len(s) THEN <<>>
    ELSE IF MatchAt(s, from, i)
         THEN to \o ReplaceFrom(s, from, to, i + Len(from))
         ELSE <<s[i]>> \o ReplaceFrom(s, from, to, i + 1)

Replace(s, from, to) == ReplaceFrom(s, from, to, 1)

\* Concatenation of a sequence of texts with a separator between them.
RECURSIVE JoinWith(_, _)
JoinWith(parts, sep) ==
    IF Len(parts) = 0 THEN <<>>
    ELSE IF Len(parts) = 1 THEN parts[1]
    ELSE parts[1] \o sep \o JoinWith(Tail(parts), sep)

\* All sequences over S of length at most n.
SeqsUpTo(S, n) == UNION {[1..k -> S] : k \in 0..n}

Dollar1 == <<"$", "1">>
Dollar2 == <<"$", "2">>
BadByte == "0xFF"
\* The grave accent, which a TLA+ string cannot hold.
Backquote == "0x60"


-----------------------------------------------------------------------------
(* shell_words::split, as called at the top of run_loader_command: a scan   *)
(* of the template, one character at a time, through the states Delimiter,  *)
(* Backslash, Unquoted, UnquotedBackslash, SingleQuoted, DoubleQuoted,      *)
(* DoubleQuotedBackslash and Comment.  The result is the word array, or a   *)
(* parse error when the text ends inside a quotation.                       *)

IsBlank(c) == c \in {" ", "\t", "\n"}

ParseError == [ok |-> FALSE, words |-> <<>>]
Words(ws)  == [ok |-> TRUE, words |-> ws]

RECURSIVE SplitScan(_, _, _, _, _)
SplitScan(s, i, state, word, words) ==
    LET end == i > Len(s)
        c   == s[i]
        go(st, w, ws) == SplitScan(s, i + 1, st, w, ws)
    IN
    CASE state = "Delimiter" ->
           IF end THEN Words(words)
           ELSE IF c = "'" THEN go("SingleQuoted", word, words)
           ELSE IF c = "\"" THEN go("DoubleQuoted", word, words)
           ELSE IF c = "\\" THEN go("Backslash", word, words)
           ELSE IF IsBlank(c) THEN go("Delimiter", word, words)
           ELSE IF c = "#" THEN go("Comment", word, words)
           ELSE go("Unquoted", Append(word, c), words)
      [] state = "Backslash" ->
           IF end THEN Words(Append(words, Append(word, "\\")))
           ELSE IF c = "\n" THEN go("Delimiter", word, words)
           ELSE go("Unquoted", Append(word, c), words)
      [] state = "Unquoted" ->
           IF end THEN Words(Append(words, word))
           ELSE IF c = "'" THEN go("SingleQuoted", word, words)
           ELSE IF c = "\"" THEN go("DoubleQuoted", word, words)
           ELSE IF c = "\\" THEN go("UnquotedBackslash", word, words)
           ELSE IF IsBlank(c) THEN go("Delimiter", <<>>, Append(words, word))
           ELSE go("Unquoted", Append(word, c), words)
      [] state = "UnquotedBackslash" ->
           IF end THEN Words(Append(words, Append(word, "\\")))
           ELSE IF c = "\n" THEN go("Unquoted", word, words)
           ELSE go("Unquoted", Append(word, c), words)
      [] state = "SingleQuoted" ->
           IF end THEN ParseError
           ELSE IF c = "'" THEN go("Unquoted", word, words)
           ELSE go("SingleQuoted", Append(word, c), words)
      [] state = "DoubleQuoted" ->
           IF end THEN ParseError
           ELSE IF c = "\"" THEN go("Unquoted", word, words)
           ELSE IF c = "\\" THEN go("DoubleQuotedBackslash", word, words)
           ELSE go("DoubleQuoted", Append(word, c), words)
      [] state = "DoubleQuotedBackslash" ->
           IF end THEN ParseError
           ELSE IF c = "\n" THEN go("DoubleQuoted", word, words)
           ELSE IF c \in {"$", Backquote, "\"", "\\"}
                THEN go("DoubleQuoted", Append(word, c), words)
           ELSE go("DoubleQuoted", Append(Append(word, "\\"), c), words)
      [] OTHER -> \* Comment
           IF end THEN Words(words)
           ELSE IF c = "\n" THEN go("Delimiter", word, words)
           ELSE go("Comment", word, words)

split(s) == SplitScan(s, 1, "Delimiter", <<>>, <<>>)

(* shell_words::join, used for cmd_eval (diagnostics only): each word is    *)
(* quoted when it is empty or holds a character the shell would interpret.  *)
SafeChars ==
    {"a", "b", "c", "d", "e", "f", "g", "h", "i", "j", "k", "l", "m", "n", "o",
     "p", "q", "r", "s", "t", "u", "v", "w", "x", "y", "z",
     "0", "1", "2", "3", "4", "5", "6", "7", "8", "9",
     "_", "-", ".", ",", ":", "/", "@"}

RECURSIVE BackslashEscape(_)
BackslashEscape(w) ==
    IF Len(w) = 0 THEN <<>>
    ELSE (IF Head(w) \in SafeChars THEN <<Head(w)>> ELSE <<"\\", Head(w)>>)
         \o BackslashEscape(Tail(w))

quote(w) ==
    IF Len(w) = 0 THEN <<"'", "'">>
    ELSE IF \A k \in 1..Len(w) : w[k] \in SafeChars THEN w
    ELSE IF \E k \in 1..Len(w) : w[k] = "'" THEN BackslashEscape(w)
    ELSE <<"'">> \o w \o <<"'">>

join(ws) == JoinWith([k \in 1..Len(ws) |-> quote(ws[k])], <<" ">>)

-----------------------------------------------------------------------------
(* The temp output path: env::temp_dir().join("aichat-output-" + sha256).   *)
(* sha256 is an opaque, deterministic, collision-free digest written in     *)
(* hexadecimal; here the digest of a text is the hexadecimal code of its    *)
(* characters, which has the same three properties.                         *)

HexOf(c) ==
    CASE c = "$" -> <<"2", "4">>
      [] c = "1" -> <<"3", "1">>
      [] c = "2" -> <<"3", "2">>
      [] c = "p" -> <<"7", "0">>
      [] c = "q" -> <<"7", "1">>
      [] c = "/" -> <<"2", "f">>
      [] OTHER   -> <<"0", "0">>

RECURSIVE sha256(_)
sha256(s) == IF Len(s) = 0 THEN <<>> ELSE HexOf(Head(s)) \o sha256(Tail(s))

temp_dir == <<"/", "t", "m", "p">>

\* A temp output path that leaves the input path out of the file name.
OutPath_SharedName(p) == temp_dir \o <<"/", "o", "u", "t", "-">>

OutPath(p) == temp_dir \o <<"/", "o", "u", "t", "-">> \o sha256(p)

-----------------------------------------------------------------------------
(* run_loader_command up to the point where the subprocess is spawned:      *)
(* split, substitution of $1 and $2 (which also decides the mode), cmd_eval *)
(* and the division of the word array into the executable and its           *)
(* arguments.                                                               *)

\* The closure applied to one word: $1 is replaced first, and the result of
\* that replacement is what is then searched for $2.
SubstWord(v, p, out) ==
    LET v1 == IF Contains(v, Dollar1) THEN Replace(v, Dollar1, p) ELSE v
        hit == Contains(v1, Dollar2)
    IN  [word |-> IF hit THEN Replace(v1, Dollar2, out) ELSE v1, hit |-> hit]

\* split_at(1) panics on an empty word array.
SplitAtPanics(ws) == Len(ws) < 1

Prepare(p, ext, template) ==
    LET sp   == split(template)
        out  == OutPath(p)
        sub  == [k \in 1..Len(sp.words) |-> SubstWord(sp.words[k], p, out)]
        args == [k \in 1..Len(sp.words) |-> sub[k].word]
    IN  [parsed     |-> sp.ok,
         words      |-> sp.words,
         cmd_args   |-> args,
         use_stdout |-> ~(\E k \in 1..Len(sp.words) : sub[k].hit),
         outpath    |-> out,
         cmd_eval   |-> join(args),
         panics     |-> sp.ok /\ SplitAtPanics(args)]

-----------------------------------------------------------------------------
(* The substitution step on its own: the inputs are drawn in the initial    *)
(* state and RunPrepare applies the step to them.                           *)

MaxTemplateLen == 4
MaxPathLen == 2

TemplateChars == {"c", "$", "1", "2", " ", "'", "#"}
PathChars     == {"p", "$", "2"}

NotRun == [ran |-> FALSE]

InitSubst ==
    /\ in_path \in SeqsUpTo(PathChars, MaxPathLen) \ {<<>>}
    /\ in_template \in SeqsUpTo(TemplateChars, MaxTemplateLen)
    /\ prepared = NotRun

IdleSubst ==
    /\ in_path = <<>>
    /\ in_template = <<>>
    /\ prepared = NotRun

RunPrepare ==
    /\ prepared = NotRun
    /\ prepared' = [ran |-> TRUE, out |-> Prepare(in_path, <<"e">>, in_template)]
    /\ UNCHANGED <<in_path, in_template>>

-----------------------------------------------------------------------------
(* detect_shell.  An environment variable is Unset or Set(text); env::var   *)
(* followed by ok() or unwrap_or_else sees nothing else.                    *)

Unset  == [set |-> FALSE, v |-> <<>>]
Set(v) == [set |-> TRUE, v |-> v]

UpperCase == <<"A", "B", "C", "D", "E", "F", "G", "H", "I", "J", "K", "L", "M",
               "N", "O", "P", "Q", "R", "S", "T", "U", "V", "W", "X", "Y", "Z">>
LowerCase == <<"a", "b", "c", "d", "e", "f", "g", "h", "i", "j", "k", "l", "m",
               "n", "o", "p", "q", "r", "s", "t", "u", "v", "w", "x", "y", "z">>

LowerChar(c) ==
    IF \E k \in 1..Len(UpperCase) : UpperCase[k] = c
    THEN LowerCase[CHOOSE k \in 1..Len(UpperCase) : UpperCase[k] = c]
    ELSE c

to_lowercase(s) == [k \in 1..Len(s) |-> LowerChar(s[k])]

\* v.split(';').count(): one more than the number of separators.
SplitCount(s, sep) == Cardinality({k \in 1..Len(s) : s[k] = sep}) + 1

\* rsplit_once('/'): the text after the last '/', or the whole text when
\* there is none.
AfterLast(s, sep) ==
    LET at == {k \in 1..Len(s) : s[k] = sep}
    IN  IF at = {} THEN s
        ELSE LET last == CHOOSE k \in at : \A j \in at : j <= k
             IN  SubSeq(s, last + 1, Len(s))

Shell_new(name, cmd, arg) == [name |-> name, cmd |-> cmd, arg |-> arg]

T_bash       == <<"b", "a", "s", "h">>
T_zsh        == <<"z", "s", "h">>
T_fish       == <<"f", "i", "s", "h">>
T_pwsh       == <<"p", "w", "s", "h">>
T_sh         == <<"s", "h">>
T_cmd        == <<"c", "m", "d">>
T_powershell == <<"p", "o", "w", "e", "r", "s", "h", "e", "l", "l">>
T_exe        == <<".", "e", "x", "e">>
T_bin_sh     == <<"/", "b", "i", "n", "/", "s", "h">>
T_dash_c     == <<"-", "c">>
T_slash_C    == <<"/", "C">>
T_Command    == <<"-", "C", "o", "m", "m", "a", "n", "d">>
\* The text searched for in PSModulePath: powershell\7\
T_ps7        == T_powershell \o <<"\\", "7", "\\">>

KnownShells == {T_bash, T_zsh, T_fish, T_pwsh}

\* The value searched as it stands, in the case it was written in.
PsValue_CaseKept(v) == v

\* The text whose segments are counted and searched on Windows.
PsValue(v) == to_lowercase(v)

detect_shell(o, SHELL, PSModulePath) ==
    IF o = "windows"
    THEN IF PSModulePath.set /\ SplitCount(PsValue(PSModulePath.v), ";") >= 3
         THEN IF Contains(PsValue(PSModulePath.v), T_ps7)
              THEN Shell_new(T_pwsh, T_pwsh \o T_exe, T_dash_c)
              ELSE Shell_new(T_powershell, T_powershell \o T_exe, T_Command)
         ELSE Shell_new(T_cmd, T_cmd \o T_exe, T_slash_C)
    ELSE LET sh == AfterLast(IF SHELL.set THEN SHELL.v ELSE T_bin_sh, "/")
         IN  IF sh \in KnownShells
             THEN Shell_new(sh, sh, T_dash_c)
             ELSE Shell_new(T_sh, T_sh, T_dash_c)

(* The environment snapshots explored: SHELL is a path of at most           *)
(* MaxShellDepth components, PSModulePath a list of at most MaxPsSegments   *)
(* ';'-separated entries.                                                   *)
MaxShellDepth == 2
MaxPsSegments == 3

OsNames == {"linux", "macos", "windows"}

ShellComponents ==
    {<<>>, <<"t", "c", "s", "h">>, T_bash, T_zsh, T_fish, T_pwsh}

PsEntries ==
    {<<>>,
     <<"C", ":", "\\", "P", "o", "w", "e", "r", "S", "h", "e", "l", "l", "\\", "7", "\\", "M">>,
     <<"C", ":", "\\", "W", "i", "n", "P", "o", "w", "e", "r", "S", "h", "e", "l", "l", "\\", "v", "1">>}

ShellValues ==
    {Unset} \cup
    {Set(JoinWith(parts, <<"/">>)) :
        parts \in UNION {[1..k -> ShellComponents] : k \in 1..MaxShellDepth}}

PsValues ==
    {Unset} \cup
    {Set(JoinWith(parts, <<";">>)) :
        parts \in UNION {[1..k -> PsEntries] : k \in 1..MaxPsSegments}}

NoShell == Shell_new(<<>>, <<>>, <<>>)

InitShell ==
    /\ os \in OsNames
    /\ env_SHELL \in ShellValues
    /\ env_PSModulePath \in PsValues
    /\ shell = NoShell

IdleShell ==
    /\ os = "linux"
    /\ env_SHELL = Unset
    /\ env_PSModulePath = Unset
    /\ shell = NoShell

DetectShell ==
    /\ shell = NoShell
    /\ shell' = detect_shell(os, env_SHELL, env_PSModulePath)
    /\ UNCHANGED <<os, env_SHELL, env_PSModulePath>>

-----------------------------------------------------------------------------
(* The process runners and the rest of run_loader_command.                  *)

Callers == {"a", "b"}

\* An exit status: an exit code, or none when a signal ended the process.
Exited(n) == [has_code |-> TRUE, code |-> n]
Signaled  == [has_code |-> FALSE, code |-> 0]
Statuses  == {Exited(0), Exited(1), Signaled}

\* ExitStatus::success and ExitStatus::code().unwrap_or_default()
success(status)    == status.has_code /\ status.code = 0
code_or_default(status) == IF status.has_code THEN status.code ELSE 0

\* std::str::from_utf8
from_utf8_ok(bytes) == \A k \in 1..Len(bytes) : bytes[k] # BadByte

\* Errors are chains of messages, the outermost context first.
Msg(kind, a, b) == [kind |-> kind, a |-> a, b |-> b]
MsgInvalidLoader(ext, template) == Msg("InvalidLoader", ext, template)
MsgParseError            == Msg("ParseError", <<>>, <<>>)
MsgUnableToRun(ev, cmd)  == Msg("UnableToRun", ev, cmd)
MsgExitedNonZero(ev)     == Msg("ExitedNonZero", ev, <<>>)
MsgText(text)            == Msg("Text", text, <<>>)
MsgInvalidUtf8Stdout     == Msg("InvalidUtf8Stdout", <<>>, <<>>)
MsgInvalidUtf8Stderr     == Msg("InvalidUtf8Stderr", <<>>, <<>>)
MsgUtf8Error             == Msg("Utf8Error", <<>>, <<>>)
MsgReadFailed            == Msg("ReadFailed", <<>>, <<>>)
MsgIoError               == Msg("IoError", <<>>, <<>>)

Ok(text)   == [kind |-> "Ok", text |-> text, chain |-> <<>>]
Err(chain) == [kind |-> "Err", text |-> <<>>, chain |-> chain]
Panic      == [kind |-> "Panic", text |-> <<>>, chain |-> <<>>]
NoResult   == [kind |-> "None", text |-> <<>>, chain |-> <<>>]

\* Result::with_context: an error gets the context in front of its chain.
with_context(r, ctx) == IF r.kind = "Err" THEN Err(<<ctx>> \o r.chain) ELSE r

\* run_command_with_output once the child has exited.
run_command_with_output(c) ==
    IF ~from_utf8_ok(c.stdout) THEN Err(<<MsgInvalidUtf8Stdout, MsgUtf8Error>>)
    ELSE IF ~from_utf8_ok(c.stderr) THEN Err(<<MsgInvalidUtf8Stderr, MsgUtf8Error>>)
    ELSE [kind |-> "Ok", success |-> success(c.status),
          stdout |-> c.stdout, stderr |-> c.stderr]

\* run_command once the child has exited.
run_command(c) == code_or_default(c.status)

\* A failure that reports the generic message whatever stderr holds.
StdoutFailure_IgnoresStderr(ev, stderr) == Err(<<MsgExitedNonZero(ev)>>)

\* The error of the stdout branch when the command did not succeed.
StdoutFailure(ev, stderr) ==
    IF stderr # <<>> THEN Err(<<MsgText(stderr)>>)
    ELSE Err(<<MsgExitedNonZero(ev)>>)

\* The stdout branch after the child has exited.
StdoutBranch(ev, cmd, c) ==
    LET r == with_context(run_command_with_output(c), MsgUnableToRun(ev, cmd))
    IN  IF r.kind = "Err" THEN r
        ELSE IF ~r.success THEN StdoutFailure(ev, r.stderr)
        ELSE Ok(r.stdout)

\* A file of the temp directory.
Missing     == [exists |-> FALSE, bytes |-> <<>>]
File(bytes) == [exists |-> TRUE, bytes |-> bytes]

\* std::fs::read_to_string
read_to_string(f) ==
    IF f.exists /\ from_utf8_ok(f.bytes) THEN Ok(f.bytes)
    ELSE Err(<<MsgIoError>>)

\* Whether the output-file branch goes on to read the temp output path.
ReadsFile(c) == run_command(c) = 0

\* The output-file branch after the child has exited.
FileBranch(ev, c, f) ==
    IF ~ReadsFile(c) THEN Err(<<MsgExitedNonZero(ev)>>)
    ELSE with_context(read_to_string(f), MsgReadFailed)

\* The two runners exchanged.
RunnerFor_Swapped(stdout_mode) ==
    IF stdout_mode THEN "run_command" ELSE "run_command_with_output"

\* The runner each mode calls.
RunnerFor(stdout_mode) ==
    IF stdout_mode THEN "run_command_with_output" ELSE "run_command"

NoChild == [state |-> "none", status |-> Exited(0), stdout |-> <<>>, stderr |-> <<>>]
\* Command::status and Command::output return only when the child has ended;
\* until then the child runs.
Running == [state |-> "running", status |-> Exited(0), stdout |-> <<>>, stderr |-> <<>>]

(* What the subprocess, an external program, may do.                        *)
T_old  == <<"o", "l", "d">>
T_text == <<"t", "x", "t", "\n">>
T_boom == <<"b", "o", "o", "m">>
Doc(i) == <<"d", "o", "c", "-", i, "\n">>

StdoutTexts == {<<>>, T_text, <<BadByte>>}
StderrTexts == {<<>>, T_boom, <<BadByte>>}
LoaderOutputs(i) == {Doc(i), <<BadByte>>}

(* The inputs of the invocations explored.                                  *)
T_c_1       == <<"c", " ", "$", "1">>
T_c_1_2     == <<"c", " ", "$", "1", " ", "$", "2">>
T_unclosed  == <<"'", "c">>
T_blank     == <<" ">>

LoaderTemplates == {<<>>, T_blank, T_unclosed, T_c_1, T_c_1_2}
LoaderPaths     == {<<"p">>, <<"q">>}
Extensions      == {<<"e">>}
TempPaths       == {OutPath(p) : p \in LoaderPaths}

InitLoader ==
    /\ pc = [i \in Callers |-> "idle"]
    /\ path = [i \in Callers |-> <<>>]
    /\ extension = [i \in Callers |-> <<>>]
    /\ loader_command = [i \in Callers |-> <<>>]
    /\ cmd_args = [i \in Callers |-> <<>>]
    /\ use_stdout = [i \in Callers |-> TRUE]
    /\ outpath = [i \in Callers |-> <<>>]
    /\ child = [i \in Callers |-> NoChild]
    /\ result = [i \in Callers |-> NoResult]
    /\ spawns = [i \in Callers |-> 0]
    /\ runner = [i \in Callers |-> "none"]
    /\ reads = [i \in Callers |-> 0]
    /\ wrote = [i \in Callers |-> FALSE]
    /\ fs \in [TempPaths -> {Missing, File(T_old)}]

IdleLoader ==
    /\ InitLoader
    /\ fs = [o \in TempPaths |-> Missing]

\* run_loader_command from its entry to the spawn of the subprocess.
\* `installed` says whether the executable can be spawned.
Call(i, p, ext, template, installed) ==
    LET pr  == Prepare(p, ext, template)
        cmd == pr.cmd_args[1]
    IN
    /\ pc[i] = "idle"
    /\ path' = [path EXCEPT ![i] = p]
    /\ extension' = [extension EXCEPT ![i] = ext]
    /\ loader_command' = [loader_command EXCEPT ![i] = template]
    /\ UNCHANGED <<reads, wrote, fs>>
    /\ IF ~pr.parsed
       THEN /\ result' = [result EXCEPT ![i] =
                    Err(<<MsgInvalidLoader(ext, template), MsgParseError>>)]
            /\ pc' = [pc EXCEPT ![i] = "done"]
            /\ UNCHANGED <<cmd_args, use_stdout, outpath, spawns, runner, child>>
       ELSE /\ cmd_args' = [cmd_args EXCEPT ![i] = pr.cmd_args]
            /\ use_stdout' = [use_stdout EXCEPT ![i] = pr.use_stdout]
            /\ outpath' = [outpath EXCEPT ![i] = pr.outpath]
            /\ IF pr.panics
               THEN /\ result' = [result EXCEPT ![i] = Panic]
                    /\ pc' = [pc EXCEPT ![i] = "done"]
                    /\ UNCHANGED <<spawns, runner, child>>
               ELSE /\ runner' = [runner EXCEPT ![i] = RunnerFor(pr.use_stdout)]
                    /\ IF installed
                       THEN /\ spawns' = [spawns EXCEPT ![i] = @ + 1]
                            /\ child' = [child EXCEPT ![i] = Running]
                            /\ pc' = [pc EXCEPT ![i] = "running"]
                            /\ UNCHANGED result
                       ELSE /\ result' = [result EXCEPT ![i] =
                                    Err(<<MsgUnableToRun(pr.cmd_eval, cmd), MsgIoError>>)]
                            /\ pc' = [pc EXCEPT ![i] = "done"]
                            /\ UNCHANGED <<spawns, child>>

\* The loader, handed the temp output path, writes its output file.
LoaderWrite(i) ==
    /\ pc[i] = "running"
    /\ child[i].state = "running"
    /\ ~use_stdout[i]
    /\ \E bytes \in LoaderOutputs(i) :
           fs' = [fs EXCEPT ![outpath[i]] = File(bytes)]
    /\ wrote' = [wrote EXCEPT ![i] = TRUE]
    /\ UNCHANGED <<pc, path, extension, loader_command, cmd_args, use_stdout,
                   outpath, child, result, spawns, runner, reads>>

\* The subprocess ends; only the capturing runner keeps its streams.
ProcExit(i) ==
    /\ pc[i] = "running"
    /\ child[i].state = "running"
    /\ \E st \in Statuses, so \in StdoutTexts, se \in StderrTexts :
           /\ (runner[i] = "run_command") => (so = <<>> /\ se = <<>>)
           /\ child' = [child EXCEPT ![i] =
                  [state |-> "exited", status |-> st, stdout |-> so, stderr |-> se]]
    /\ pc' = [pc EXCEPT ![i] = "exited"]
    /\ UNCHANGED <<path, extension, loader_command, cmd_args, use_stdout,
                   outpath, result, spawns, runner, reads, wrote, fs>>

\* A return that removes the temp output file once it has read it.
Return_RemovesFile(i) ==
    LET ev  == join(cmd_args[i])
        cmd == cmd_args[i][1]
        r   == IF runner[i] = "run_command_with_output"
               THEN StdoutBranch(ev, cmd, child[i])
               ELSE FileBranch(ev, child[i], fs[outpath[i]])
        doesRead == runner[i] = "run_command" /\ ReadsFile(child[i])
    IN
    /\ pc[i] = "exited"
    /\ reads' = [reads EXCEPT ![i] = IF doesRead THEN @ + 1 ELSE @]
    /\ fs' = IF doesRead THEN [fs EXCEPT ![outpath[i]] = Missing] ELSE fs
    /\ result' = [result EXCEPT ![i] = r]
    /\ pc' = [pc EXCEPT ![i] = "done"]
    /\ UNCHANGED <<path, extension, loader_command, cmd_args, use_stdout,
                   outpath, child, spawns, runner, wrote>>

\* run_loader_command from the return of the runner to its own return.
Return(i) ==
    LET ev  == join(cmd_args[i])
        cmd == cmd_args[i][1]
        r   == IF runner[i] = "run_command_with_output"
               THEN StdoutBranch(ev, cmd, child[i])
               ELSE FileBranch(ev, child[i], fs[outpath[i]])
        doesRead == runner[i] = "run_command" /\ ReadsFile(child[i])
    IN
    /\ pc[i] = "exited"
    /\ reads' = [reads EXCEPT ![i] = IF doesRead THEN @ + 1 ELSE @]
    /\ result' = [result EXCEPT ![i] = r]
    /\ pc' = [pc EXCEPT ![i] = "done"]
    /\ UNCHANGED <<path, extension, loader_command, cmd_args, use_stdout,
                   outpath, child, spawns, runner, wrote, fs>>

\* The caller has its result and is free to call again.
Reset(i) ==
    /\ pc[i] = "done"
    /\ pc' = [pc EXCEPT ![i] = "idle"]
    /\ path' = [path EXCEPT ![i] = <<>>]
    /\ extension' = [extension EXCEPT ![i] = <<>>]
    /\ loader_command' = [loader_command EXCEPT ![i] = <<>>]
    /\ cmd_args' = [cmd_args EXCEPT ![i] = <<>>]
    /\ use_stdout' = [use_stdout EXCEPT ![i] = TRUE]
    /\ outpath' = [outpath EXCEPT ![i] = <<>>]
    /\ child' = [child EXCEPT ![i] = NoChild]
    /\ result' = [result EXCEPT ![i] = NoResult]
    /\ spawns' = [spawns EXCEPT ![i] = 0]
    /\ runner' = [runner EXCEPT ![i] = "none"]
    /\ reads' = [reads EXCEPT ![i] = 0]
    /\ wrote' = [wrote EXCEPT ![i] = FALSE]
    /\ UNCHANGED fs

-----------------------------------------------------------------------------
(* Specifications.                                                          *)

\* One caller, any number of invocations one after the other.
Init == InitLoader /\ IdleSubst /\ IdleShell

Next ==
    \/ \E p \in LoaderPaths, ext \in Extensions, t \in LoaderTemplates,
          installed \in BOOLEAN :
           Call("a", p, ext, t, installed) /\ UNCHANGED <<substVars, shellVars>>
    \/ LoaderWrite("a") /\ UNCHANGED <<substVars, shellVars>>
    \/ ProcExit("a") /\ UNCHANGED <<substVars, shellVars>>
    \/ Return("a") /\ UNCHANGED <<substVars, shellVars>>
    \/ Reset("a") /\ UNCHANGED <<substVars, shellVars>>

Spec == Init /\ [][Next]_vars

\* Two callers, one output-file-mode invocation each, running concurrently.
ConcTemplates == {T_c_1_2}
ConcPaths     == {<<"p">>, <<"q">>}

NextConc ==
    \E i \in Callers :
        \/ \E p \in ConcPaths, ext \in Extensions, t \in ConcTemplates,
              installed \in BOOLEAN :
               Call(i, p, ext, t, installed) /\ UNCHANGED <<substVars, shellVars>>
        \/ LoaderWrite(i) /\ UNCHANGED <<substVars, shellVars>>
        \/ ProcExit(i) /\ UNCHANGED <<substVars, shellVars>>
        \/ Return(i) /\ UNCHANGED <<substVars, shellVars>>

SpecConc == Init /\ [][NextConc]_vars

\* The substitution step applied to every template and path within the bounds.
InitSubstOnly == IdleLoader /\ InitSubst /\ IdleShell
NextSubst     == RunPrepare /\ UNCHANGED <<loaderVars, shellVars>>
SpecSubst     == InitSubstOnly /\ [][NextSubst]_vars

\* detect_shell applied to every environment snapshot within the bounds.
InitShellOnly == IdleLoader /\ IdleSubst /\ InitShell
NextShell     == DetectShell /\ UNCHANGED <<loaderVars, substVars>>
SpecShell     == InitShellOnly /\ [][NextShell]_vars

-----------------------------------------------------------------------------
(* Properties of the substitution step (checked under SpecSubst).           *)

Substituted == prepared.ran /\ prepared.out.parsed

\* Whether some word of the shell-split template holds the placeholder $2.
TemplateHasDollar2(template) ==
    \E k \in 1..Len(split(template).words) :
        Contains(split(template).words[k], Dollar2)

\* C1: output-file mode is selected if and only if the command template
\* contains $2 (here: one of its shell-split words does), and stdout mode
\* otherwise, so that the mode depends on the template alone and never on
\* the input path.
C1_ModeDecidedByTemplate ==
    Substituted =>
        (~prepared.out.use_stdout <=> TemplateHasDollar2(in_template))

\* The substitution the specification describes: one pass over the template
\* word in which $1 becomes the input path and $2 the temp output path, the
\* inserted text being left as it is.
RECURSIVE SubstituteOnce(_, _, _, _)
SubstituteOnce(w, p, out, i) ==
    IF i > Len(w) THEN <<>>
    ELSE IF MatchAt(w, Dollar1, i) THEN p \o SubstituteOnce(w, p, out, i + 2)
    ELSE IF MatchAt(w, Dollar2, i) THEN out \o SubstituteOnce(w, p, out, i + 2)
    ELSE <<w[i]>> \o SubstituteOnce(w, p, out, i + 1)

\* C5: the executed word sequence has the length and order of the
\* shell-split template, and each executed word is the template word with
\* every $1 replaced by the input path as given and every $2 by the temp
\* output path; the inserted input path is not itself scanned for
\* placeholders.
C5_WordsSubstitutedLiterally ==
    Substituted =>
        /\ Len(prepared.out.cmd_args) = Len(split(in_template).words)
        /\ \A k \in 1..Len(prepared.out.cmd_args) :
               prepared.out.cmd_args[k] =
                   SubstituteOnce(split(in_template).words[k], in_path,
                                  OutPath(in_path), 1)

-----------------------------------------------------------------------------
(* Properties of the loader protocol (checked under Spec).                  *)

Done(i)       == pc[i] = "done"
ChildRan(i)   == child[i].state = "exited"
StdoutMode(i) == runner[i] = "run_command_with_output"
FileMode(i)   == runner[i] = "run_command"
SpawnFailed(i) == Done(i) /\ runner[i] # "none" /\ spawns[i] = 0
HasMessage(r, kind) == \E k \in 1..Len(r.chain) : r.chain[k].kind = kind
CmdEval(i)    == join(cmd_args[i])

\* C2: in output-file mode the temp file's contents are returned only when
\* the subprocess exited with code 0; a non-zero exit code and a missing exit
\* code (death by signal) both fail with the 'exited with non-zero' error,
\* and in neither case is the temp output file read.
C2_FileModeNeedsExitCodeZero ==
    \A i \in Callers :
        (Done(i) /\ FileMode(i) /\ ChildRan(i)) =>
            /\ result[i].kind = "Ok" => child[i].status = Exited(0)
            /\ child[i].status # Exited(0) =>
                   /\ result[i] = Err(<<MsgExitedNonZero(CmdEval(i))>>)
                   /\ reads[i] = 0

\* The capturing runner handed back (success, stdout, stderr).
Captured(i) ==
    Done(i) /\ StdoutMode(i) /\ ChildRan(i)
    /\ from_utf8_ok(child[i].stdout) /\ from_utf8_ok(child[i].stderr)

\* Whether an error carries context that identifies the command.
NamesCommand(i, r) ==
    \E k \in 1..Len(r.chain) :
        r.chain[k].kind \in {"UnableToRun", "ExitedNonZero"}
        /\ r.chain[k].a = CmdEval(i)

\* The message an error ends with.
LastMessage(r) == r.chain[Len(r.chain)]

\* C3, as claimed: in stdout mode, success returns exactly the captured
\* stdout; failure returns an error whose message is the captured stderr when
\* that is non-empty and the generic 'exited with non-zero' message
\* otherwise, and in both failure cases the error carries context identifying
\* the failed command.
C3_StdoutModeResult_AsClaimed ==
    \A i \in Callers :
        Captured(i) =>
            IF success(child[i].status)
            THEN result[i] = Ok(child[i].stdout)
            ELSE /\ result[i].kind = "Err"
                 /\ LastMessage(result[i]) =
                        (IF child[i].stderr # <<>>
                         THEN MsgText(child[i].stderr)
                         ELSE MsgExitedNonZero(CmdEval(i)))
                 /\ NamesCommand(i, result[i])

\* C3, amended: in stdout mode, success returns exactly the captured stdout;
\* failure returns an error that is the captured stderr alone, with no
\* context naming the command, when stderr is non-empty, and the generic
\* 'exited with non-zero' message, which names the command, otherwise.
C3_StdoutModeResult ==
    \A i \in Callers :
        Captured(i) =>
            IF success(child[i].status)
            THEN result[i] = Ok(child[i].stdout)
            ELSE IF child[i].stderr # <<>>
            THEN result[i] = Err(<<MsgText(child[i].stderr)>>)
                 /\ ~NamesCommand(i, result[i])
            ELSE result[i] = Err(<<MsgExitedNonZero(CmdEval(i))>>)

C3_Witness ==
    /\ Captured("a")
    /\ ~success(child["a"].status)
    /\ child["a"].stderr = T_boom
    /\ result["a"] = Err(<<MsgText(T_boom)>>)

\* C4: in both modes the tool-missing error ('Unable to run ..., Perhaps ...
\* is not installed?') is reported when and only when spawning the
\* subprocess failed; a subprocess that ran (non-zero exit, or output that is
\* not valid UTF-8) yields an error without the not-installed message.
C4_NotInstalledOnlyOnSpawnFailure ==
    \A i \in Callers :
        Done(i) => (HasMessage(result[i], "UnableToRun") <=> SpawnFailed(i))

\* C8: for every input, the empty and the blank template included,
\* run_loader_command ends by returning the loaded text or an error value;
\* whenever it goes on to execute, the word array has a first word, the
\* executable; it never aborts without a result.
C8_AlwaysReturnsAResult ==
    \A i \in Callers :
        /\ Done(i) => result[i].kind \in {"Ok", "Err"}
        /\ runner[i] # "none" => Len(cmd_args[i]) >= 1

\* C9: an invocation spawns no subprocess when the template fails to parse
\* and at most one otherwise; it uses the capturing runner exactly in stdout
\* mode and the status-only runner exactly in output-file mode; the temp
\* output path is read only after the subprocess has finished; and a read
\* failure is returned as the 'failed to read' error.
C9_OneShotAndOrdered ==
    \A i \in Callers :
        /\ spawns[i] <= 1
        /\ (pc[i] # "idle" /\ ~split(loader_command[i]).ok) =>
               (spawns[i] = 0 /\ runner[i] = "none")
        /\ runner[i] # "none" =>
               /\ StdoutMode(i) <=> use_stdout[i]
               /\ FileMode(i) <=> ~use_stdout[i]
        /\ reads[i] >= 1 => (ChildRan(i) /\ FileMode(i) /\ Done(i))
        /\ (Done(i) /\ FileMode(i) /\ ChildRan(i) /\ reads[i] = 1
              /\ ~(fs[outpath[i]].exists /\ from_utf8_ok(fs[outpath[i]].bytes))) =>
               result[i] = Err(<<MsgReadFailed, MsgIoError>>)

C9_Witness ==
    /\ Done("a") /\ FileMode("a") /\ ~use_stdout["a"]
    /\ spawns["a"] = 1 /\ reads["a"] = 1
    /\ result["a"] = Err(<<MsgReadFailed, MsgIoError>>)

\* C10: run_loader_command never creates, truncates, writes or deletes the
\* temp output file: in stdout mode it does not touch it, in output-file mode
\* its only access is one read after the subprocess exits; so a temp path
\* holds what a loader last wrote there, and a file left by an earlier
\* invocation is still there, and is what is read, when a later loader
\* exits 0 without writing it.
C10_Step ==
    /\ pc' # pc => fs' = fs
    /\ \A i \in Callers :
           /\ reads'[i] <= 1
           /\ use_stdout'[i] => reads'[i] = 0
           /\ reads'[i] > reads[i] => (ChildRan(i) /\ pc[i] = "exited")
           /\ (pc[i] = "exited" /\ pc'[i] = "done" /\ FileMode(i)
                 /\ result'[i].kind = "Ok") =>
                  /\ reads'[i] = 1
                  /\ fs[outpath[i]].exists
                  /\ result'[i].text = fs[outpath[i]].bytes
                  /\ fs'[outpath[i]] = fs[outpath[i]]

C10_TempFileOnlyRead == [][C10_Step]_vars

\* A loader that exited 0 without writing, and the result is the file an
\* earlier invocation's loader wrote.
C10_Witness ==
    /\ Done("a") /\ FileMode("a") /\ ~wrote["a"]
    /\ result["a"] = Ok(Doc("a"))
    /\ fs[outpath["a"]] = File(Doc("a"))

-----------------------------------------------------------------------------
(* Two concurrent invocations (checked under SpecConc).                     *)

-----------------------------------------------------------------------------
(* Shell detection (checked under SpecShell).                               *)

\* The ';'- or '/'-separated segments of a text.
RECURSIVE Segments(_, _)
Segments(s, sep) ==
    IF \A k \in 1..Len(s) : s[k] # sep THEN <<s>>
    ELSE LET first == CHOOSE k \in 1..Len(s) :
                          s[k] = sep /\ \A j \in 1..(k - 1) : s[j] # sep
         IN  <<SubSeq(s, 1, first - 1)>>
             \o Segments(SubSeq(s, first + 1, Len(s)), sep)

LastOf(segs) == segs[Len(segs)]
LastSegment(s, sep) == LastOf(Segments(s, sep))

\* Whether the text sub occurs somewhere in s.
OccursIn(sub, s) ==
    \E k \in 1..(Len(s) - Len(sub) + 1) : SubSeq(s, k, k + Len(sub) - 1) = sub

\* The descriptor the decision table gives for an environment snapshot.
TableShell(o, SHELL, PSModulePath) ==
    IF o # "windows"
    THEN LET name == LastSegment(IF SHELL.set THEN SHELL.v ELSE T_bin_sh, "/")
         IN  IF name \in {T_bash, T_zsh, T_fish, T_pwsh}
             THEN [name |-> name, cmd |-> name, arg |-> T_dash_c]
             ELSE [name |-> T_sh, cmd |-> T_sh, arg |-> T_dash_c]
    ELSE IF ~PSModulePath.set \/ Len(Segments(PSModulePath.v, ";")) < 3
         THEN [name |-> T_cmd, cmd |-> T_cmd \o T_exe, arg |-> T_slash_C]
         ELSE IF OccursIn(T_ps7, to_lowercase(PSModulePath.v))
              THEN [name |-> T_pwsh, cmd |-> T_pwsh \o T_exe, arg |-> T_dash_c]
              ELSE [name |-> T_powershell, cmd |-> T_powershell \o T_exe,
                    arg |-> T_Command]

\* C7: detect_shell is total and returns, for every environment snapshot
\* (OS, SHELL, PSModulePath), the descriptor of the decision table.
C7_DetectShellTable ==
    shell # NoShell => shell = TableShell(os, env_SHELL, env_PSModulePath)

\* Windows, three entries, PowerShell 7 spelled in mixed case: pwsh.
C7_Witness ==
    /\ os = "windows"
    /\ env_PSModulePath.set
    /\ Len(Segments(env_PSModulePath.v, ";")) = 3
    /\ ~Contains(env_PSModulePath.v, T_ps7)
    /\ shell = Shell_new(T_pwsh, T_pwsh \o T_exe, T_dash_c)

=============================================================================
